---- MODULE Spec2Model ----
(***************************************************************************)
(* Model of src/virtual_dom/vnode.rs (yew): the virtual node VNode, its    *)
(* reconciliation `apply` against the previous generation, and `remove`.   *)
(*                                                                         *)
(* The live tree (the DOM) is the sequence `dom`: the node with handle n   *)
(* is dom[n].  An Option is a sequence of length at most one: None is <<>> *)
(* and Some(x) is <<x>>.  A position in a virtual tree is a path, the      *)
(* sequence of child indices from the root.                                *)
(***************************************************************************)
EXTENDS Naturals, Integers, Sequences, FiniteSets

VARIABLES
    dom,        \* the live tree: handle -> live node
    current,    \* Option<VNode>: the generation the caller keeps between passes
    self,       \* Option<VNode>: the generation being applied (mutated in place)
    stack,      \* the active calls of apply, innermost last
    pc,         \* "idle" | "apply" | "done" | "panicked"
    log,        \* live-tree primitives issued by the running / last operation
    calls,      \* the calls of apply and remove made by the running / last operation
    mountWrite  \* whether VText::render writes the content when it has no previous

vars == <<dom, current, self, stack, pc, log, calls, mountWrite>>

(***************************************************************************)
(* Bounds of the model.                                                    *)
(***************************************************************************)
MaxChilds == 2

Texts == {"a", "b"}

(***************************************************************************)
(* Option and sequence helpers.                                            *)
(***************************************************************************)
None == <<>>
Some(x) == <<x>>
IsSome(o) == o # <<>>
Unwrap(o) == o[1]

Range(s) == {s[i] : i \in 1..Len(s)}
SeqsUpTo(S, n) == UNION {[1..k -> S] : k \in 0..n}
IndexOf(s, x) == CHOOSE i \in 1..Len(s) : s[i] = x
RemoveAt(s, i) == [j \in 1..(Len(s) - 1) |-> IF j < i THEN s[j] ELSE s[j + 1]]
Min(a, b) == IF a < b THEN a ELSE b

RECURSIVE Flatten(_)
Flatten(ss) == IF ss = <<>> THEN <<>> ELSE Head(ss) \o Flatten(Tail(ss))

(***************************************************************************)
(* enum VNode: a virtual tag or text with an optional live reference.      *)
(***************************************************************************)
VTagNode(tag, childs, reference) ==
    [kind |-> "VTag", tag |-> tag, childs |-> childs, reference |-> reference]

VTextNode(text, reference) ==
    [kind |-> "VText", text |-> text, reference |-> reference]

\* impl From<VText> / From<T: ToString> for VNode: an unbound text node.
FromVText(text) == VTextNode(text, None)
\* impl From<VTag> for VNode: an unbound tag node.
FromVTag(tag, childs) == VTagNode(tag, childs, None)

Childs(v) == IF v.kind = "VTag" THEN v.childs ELSE <<>>

RECURSIVE NodeAt(_, _)
NodeAt(v, path) ==
    IF path = <<>> THEN v ELSE NodeAt(v.childs[Head(path)], Tail(path))

RECURSIVE SetReference(_, _, _)
SetReference(v, path, r) ==
    IF path = <<>> THEN [v EXCEPT !.reference = r]
    ELSE [v EXCEPT !.childs[Head(path)] = SetReference(@, Tail(path), r)]

\* The live references held anywhere in a virtual tree, in pre-order.
RECURSIVE Refs(_)
Refs(v) ==
    v.reference \o Flatten([i \in 1..Len(Childs(v)) |-> Refs(v.childs[i])])

OptRefs(o) == IF IsSome(o) THEN Refs(Unwrap(o)) ELSE <<>>

\* The virtual trees the caller builds, always unbound.  A child is a text, an
\* empty element, or an element of another tag with a child of its own; a root
\* is a text, an element over such children, or an empty element of another tag.
Kids ==
    {FromVText(s) : s \in Texts}
        \cup {FromVTag("div", <<>>), FromVTag("span", <<FromVText("a")>>)}

\* The two generations of the list scenario: a list of two texts, then the
\* same list with the second text changed and a third one added.
ListBefore == FromVTag("ul", <<FromVText("x"), FromVText("y")>>)
ListAfter == FromVTag("ul", <<FromVText("x"), FromVText("z"), FromVText("w")>>)

Trees ==
    {FromVText(s) : s \in Texts}
        \cup {FromVTag("div", cs) : cs \in SeqsUpTo(Kids, MaxChilds)}
        \cup {FromVTag("span", <<>>)}
        \cup {ListBefore, ListAfter}

(***************************************************************************)
(* The live-tree primitives (stdweb's INode / document), as section 6 of   *)
(* the specification states them.  A handle is an index of dom; Body is    *)
(* the live parent the caller mounts under.                                *)
(***************************************************************************)
Body == 1

Element(tag) == [kind |-> "Element", tag |-> tag, kids |-> <<>>]
TextNode(text) == [kind |-> "Text", text |-> text, kids |-> <<>>]

\* The handle the next create_* call returns.
Fresh(d) == Len(d) + 1

create_element(d, tag) == Append(d, Element(tag))
create_text_node(d, text) == Append(d, TextNode(text))

IsChild(d, parent, node) == node \in Range(d[parent].kids)

\* A node has at most one parent: inserting it elsewhere unlinks it first.
Unlink(d, node) ==
    [n \in 1..Len(d) |->
        [d[n] EXCEPT !.kids = SelectSeq(@, LAMBDA k : k # node)]]

append_child(d, parent, node) ==
    LET d1 == Unlink(d, node)
    IN  [d1 EXCEPT ![parent].kids = Append(@, node)]

\* replaceChild puts new_child at old_child's position; when old_child is not a
\* child of parent the primitive fails (NotFoundError) and changes nothing.
replace_child(d, parent, new_child, old_child) ==
    IF IsChild(d, parent, old_child)
    THEN LET d1 == Unlink(d, new_child)
             i == IndexOf(d1[parent].kids, old_child)
         IN  [d1 EXCEPT ![parent].kids[i] = new_child]
    ELSE d

\* remove_child -> Result<Node, NotFoundError>
remove_child_ok(d, parent, node) == IsChild(d, parent, node)
remove_child(d, parent, node) ==
    IF IsChild(d, parent, node)
    THEN LET i == IndexOf(d[parent].kids, node)
         IN  [d EXCEPT ![parent].kids = RemoveAt(@, i)]
    ELSE d

set_node_value(d, node, text) == [d EXCEPT ![node].text = text]

\* The parents of a live node (a set with at most one element).
ParentsOf(d, node) == {p \in 1..Len(d) : IsChild(d, p, node)}

RECURSIVE Subtree(_, _)
\* The handles of the live subtree rooted at n, in pre-order.
Subtree(d, n) ==
    <<n>> \o Flatten([i \in 1..Len(d[n].kids) |-> Subtree(d, d[n].kids[i])])

(***************************************************************************)
(* One entry of `log`: a live-tree primitive, or a renderer call, issued   *)
(* while the virtual node at path `at` was being handled.                  *)
(***************************************************************************)
Op(op, at, target, node, old, data, ok) ==
    [op |-> op, at |-> at, target |-> target, node |-> node, old |-> old,
     data |-> data, ok |-> ok]

CreateElementOp(at, node, tag) == Op("create_element", at, 0, node, 0, tag, TRUE)
CreateTextOp(at, node, text) == Op("create_text_node", at, 0, node, 0, text, TRUE)
AppendOp(at, parent, node) == Op("append_child", at, parent, node, 0, "", TRUE)
ReplaceOp(at, parent, node, old, ok) == Op("replace_child", at, parent, node, old, "", ok)
RemoveOp(at, parent, node, ok) == Op("remove_child", at, parent, node, 0, "", ok)
WarnOp(at, node) == Op("warn", at, 0, node, 0, "Node not found to remove", TRUE)
SetTextOp(at, node, text) == Op("set_node_value", at, node, node, 0, text, TRUE)
\* The renderer call: whether a previous VTag was handed over, and its tag.
RenderOp(at, node, matched, tag) == Op("render", at, node, node, 0, tag, matched)

(***************************************************************************)
(* VNode::remove(self, parent): the reference, if any, is removed from     *)
(* parent; a failure of remove_child is only warned about.  The result is  *)
(* the live tree and the primitives issued.                                *)
(***************************************************************************)
\* Variants of remove with a defect: one that forgets the request, one that
\* treats a missing reference as a failure, one that also removes the childs.
remove_forgets(d, v, parent, at) == [dom |-> d, log |-> <<>>]

remove_warns_unbound(d, v, parent, at) ==
    IF IsSome(v.reference)
    THEN [dom |-> remove_child(d, parent, Unwrap(v.reference)),
          log |-> <<RemoveOp(at, parent, Unwrap(v.reference),
                             remove_child_ok(d, parent, Unwrap(v.reference)))>>]
    ELSE [dom |-> d, log |-> <<WarnOp(at, 0)>>]

remove_with_childs(d, v, parent, at) ==
    LET node == Unwrap(v.reference)
        kids == SelectSeq(Childs(v), LAMBDA c : IsSome(c.reference))
    IN  IF IsSome(v.reference)
        THEN [dom |-> remove_child(d, parent, node),
              log |-> <<RemoveOp(at, parent, node, remove_child_ok(d, parent, node))>>
                        \o [j \in 1..Len(kids) |->
                              RemoveOp(at, node, Unwrap(kids[j].reference), TRUE)]
                        \o (IF remove_child_ok(d, parent, node)
                            THEN <<>> ELSE <<WarnOp(at, node)>>)]
        ELSE [dom |-> d, log |-> <<>>]

remove(d, v, parent, at) ==
    LET opt_ref == v.reference
    IN  IF IsSome(opt_ref)
        THEN LET node == Unwrap(opt_ref)
                 ok == remove_child_ok(d, parent, node)
             IN  [dom |-> remove_child(d, parent, node),
                  log |-> <<RemoveOp(at, parent, node, ok)>>
                            \o (IF ok THEN <<>> ELSE <<WarnOp(at, node)>>)]
        ELSE [dom |-> d, log |-> <<>>]

(***************************************************************************)
(* VNode::apply, self a VTag: the match on `last`.  The result is the live *)
(* tree, self's reference, `right` (the matched previous VTag, if any) and *)
(* the primitives issued.                                                  *)
(***************************************************************************)
\* A variant with a defect: the element is kept but its previous is not matched.
ReuseVTag_no_right(d, last_node) ==
    [dom |-> d, reference |-> last_node.reference, right |-> None, log |-> <<>>]

ReuseVTag(d, last_node) ==
    [dom |-> d, reference |-> last_node.reference,
     right |-> Some(last_node), log |-> <<>>]

\* A variant with a defect: the new element is appended, the previous node stays.
ReplaceWithElement_appends(d, left, parent, wrong, at) ==
    LET element == Fresh(d)
        d1 == create_element(d, left.tag)
    IN  [dom |-> append_child(d1, parent, element),
         reference |-> Some(element),
         right |-> None,
         log |-> <<CreateElementOp(at, element, left.tag),
                   AppendOp(at, parent, element)>>]

\* A variant with a defect: the new element is appended and the old one removed.
ReplaceWithElement_append_remove(d, left, parent, wrong, at) ==
    LET element == Fresh(d)
        d1 == create_element(d, left.tag)
    IN  [dom |-> remove_child(append_child(d1, parent, element), parent, wrong),
         reference |-> Some(element),
         right |-> None,
         log |-> <<CreateElementOp(at, element, left.tag),
                   AppendOp(at, parent, element),
                   RemoveOp(at, parent, wrong, IsChild(d1, parent, wrong))>>]

ReplaceWithElement(d, left, parent, wrong, at) ==
    LET element == Fresh(d)
        d1 == create_element(d, left.tag)
    IN  [dom |-> replace_child(d1, parent, element, wrong),
         reference |-> Some(element),
         right |-> None,
         log |-> <<CreateElementOp(at, element, left.tag),
                   ReplaceOp(at, parent, element, wrong, IsChild(d1, parent, wrong))>>]

\* A variant with a defect: the element is created and never appended.
AppendElement_detached(d, left, parent, at) ==
    LET element == Fresh(d)
    IN  [dom |-> create_element(d, left.tag),
         reference |-> Some(element),
         right |-> None,
         log |-> <<CreateElementOp(at, element, left.tag)>>]

AppendElement(d, left, parent, at) ==
    LET element == Fresh(d)
        d1 == create_element(d, left.tag)
    IN  [dom |-> append_child(d1, parent, element),
         reference |-> Some(element),
         right |-> None,
         log |-> <<CreateElementOp(at, element, left.tag),
                   AppendOp(at, parent, element)>>]

\* A variant with a defect: a bound previous element is kept whatever its tag.
MatchVTag_any_tag(d, left, parent, last, at) ==
    IF IsSome(last) /\ IsSome(Unwrap(last).reference)
    THEN IF Unwrap(last).kind = "VTag"
         THEN ReuseVTag(d, Unwrap(last))
         ELSE ReplaceWithElement(d, left, parent, Unwrap(Unwrap(last).reference), at)
    ELSE AppendElement(d, left, parent, at)

\* A variant with a defect: a replaced previous element is still matched.
MatchVTag_keeps_right(d, left, parent, last, at) ==
    IF IsSome(last) /\ IsSome(Unwrap(last).reference)
    THEN LET l == Unwrap(last)
             r == ReplaceWithElement(d, left, parent, Unwrap(l.reference), at)
         IN  IF l.kind = "VTag"
             THEN IF left.tag = l.tag
                  THEN ReuseVTag(d, l)
                  ELSE [r EXCEPT !.right = Some(l)]
             ELSE r
    ELSE AppendElement(d, left, parent, at)

MatchVTag(d, left, parent, last, at) ==
    IF IsSome(last) /\ IsSome(Unwrap(last).reference)
    THEN LET l == Unwrap(last)
         IN  IF l.kind = "VTag"
             THEN IF left.tag = l.tag
                  THEN ReuseVTag(d, l)
                  ELSE ReplaceWithElement(d, left, parent, Unwrap(l.reference), at)
             ELSE ReplaceWithElement(d, left, parent, Unwrap(l.reference), at)
    ELSE AppendElement(d, left, parent, at)

\* `match last { .. }` takes last by value: after the match the caller's frame
\* holds nothing of it (what was not moved into self or right is dropped).
TakeLast_copied(last) == last  \* a variant with a defect: last keeps its references
TakeLast(last) == None

\* let mut rights = right.childs.drain(..).map(Some).collect(), or Vec::new()
Rights(right) ==
    IF IsSome(right)
    THEN [i \in 1..Len(Unwrap(right).childs) |-> Some(Unwrap(right).childs[i])]
    ELSE <<>>

\* A variant with a defect: the childs are taken from the last to the first.
Lefts_reversed(left) == [i \in 1..Len(left.childs) |-> Some(Len(left.childs) + 1 - i)]

\* let mut lefts = left.childs.iter_mut().map(Some).collect(): the child indices
Lefts(left) == [i \in 1..Len(left.childs) |-> Some(i)]

\* A variant with a defect: the difference is taken the other way round.
Diff_swapped(lefts, rights) == Len(rights) - Len(lefts)

\* let diff = lefts.len() as i32 - rights.len() as i32
Diff(lefts, rights) == Len(lefts) - Len(rights)

\* Variants with a defect: the shorter sequence is not padded.
PadRights_none(lefts, rights) == rights
PadLefts_none(lefts, rights) == lefts

\* if diff > 0 { for _ in 0..diff { rights.push(None) } }
PadRights(lefts, rights) ==
    IF Diff(lefts, rights) > 0
    THEN rights \o [k \in 1..Diff(lefts, rights) |-> None]
    ELSE rights

\* else if diff < 0 { for _ in 0..-diff { lefts.push(None) } }
PadLefts(lefts, rights) ==
    IF Diff(lefts, rights) < 0
    THEN lefts \o [k \in 1..(0 - Diff(lefts, rights)) |-> None]
    ELSE lefts

\* lefts.into_iter().zip(rights) yields as many pairs as the shorter has items
ZipLen(lefts, rights) == Min(Len(lefts), Len(rights))

(***************************************************************************)
(* VNode::apply, self a VText: the match on `last`.                        *)
(***************************************************************************)
\* A variant with a defect: the replaced node is removed once more afterwards.
ReplaceWithText_and_remove(d, left, parent, wrong, at) ==
    LET element == Fresh(d)
        d1 == create_text_node(d, left.text)
        d2 == replace_child(d1, parent, element, wrong)
    IN  [dom |-> remove_child(d2, parent, wrong),
         reference |-> Some(element),
         right |-> None,
         log |-> <<CreateTextOp(at, element, left.text),
                   ReplaceOp(at, parent, element, wrong, IsChild(d1, parent, wrong)),
                   RemoveOp(at, parent, wrong, remove_child_ok(d2, parent, wrong)),
                   WarnOp(at, wrong)>>]

\* A variant with a defect: the previous text is not handed to the renderer.
ReuseVText_no_right(d, last_node) ==
    [dom |-> d, reference |-> last_node.reference, right |-> None, log |-> <<>>]

ReuseVText(d, last_node) ==
    [dom |-> d, reference |-> last_node.reference,
     right |-> Some(last_node), log |-> <<>>]

\* A variant with a defect: the new text is appended and the old node removed.
ReplaceWithText_append_remove(d, left, parent, wrong, at) ==
    LET element == Fresh(d)
        d1 == create_text_node(d, left.text)
    IN  [dom |-> remove_child(append_child(d1, parent, element), parent, wrong),
         reference |-> Some(element),
         right |-> None,
         log |-> <<CreateTextOp(at, element, left.text),
                   ReplaceOp(at, parent, element, wrong, IsChild(d1, parent, wrong))>>]

ReplaceWithText(d, left, parent, wrong, at) ==
    LET element == Fresh(d)
        d1 == create_text_node(d, left.text)
    IN  [dom |-> replace_child(d1, parent, element, wrong),
         reference |-> Some(element),
         right |-> None,
         log |-> <<CreateTextOp(at, element, left.text),
                   ReplaceOp(at, parent, element, wrong, IsChild(d1, parent, wrong))>>]

\* A variant with a defect: the text node is appended twice.
AppendText_twice(d, left, parent, at) ==
    LET element == Fresh(d)
        d1 == create_text_node(d, left.text)
    IN  [dom |-> append_child(append_child(d1, parent, element), parent, element),
         reference |-> Some(element),
         right |-> None,
         log |-> <<CreateTextOp(at, element, left.text),
                   AppendOp(at, parent, element),
                   AppendOp(at, parent, element)>>]

AppendText(d, left, parent, at) ==
    LET element == Fresh(d)
        d1 == create_text_node(d, left.text)
    IN  [dom |-> append_child(d1, parent, element),
         reference |-> Some(element),
         right |-> None,
         log |-> <<CreateTextOp(at, element, left.text),
                   AppendOp(at, parent, element)>>]

\* A variant with a defect: a bound previous text is replaced, not reused.
MatchVText_replaces(d, left, parent, last, at) ==
    IF IsSome(last) /\ IsSome(Unwrap(last).reference)
    THEN ReplaceWithText(d, left, parent, Unwrap(Unwrap(last).reference), at)
    ELSE AppendText(d, left, parent, at)

MatchVText(d, left, parent, last, at) ==
    IF IsSome(last) /\ IsSome(Unwrap(last).reference)
    THEN LET l == Unwrap(last)
         IN  IF l.kind = "VText"
             THEN ReuseVText(d, l)
             ELSE ReplaceWithText(d, left, parent, Unwrap(l.reference), at)
    ELSE AppendText(d, left, parent, at)

(***************************************************************************)
(* The renderers (virtual_dom::VText::render, VTag::render), as the        *)
(* specification states them.  The text renderer writes the content when   *)
(* it differs from the matched previous; without a matched previous the    *)
(* node was just created with its content, and whether the renderer writes *)
(* it again is left open (mw).  The element renderer synchronises          *)
(* attributes and listeners, which are outside this model: only the call   *)
(* is recorded.                                                            *)
(***************************************************************************)
VTextRender(d, left, subject, opposite, at, mw) ==
    IF IsSome(opposite)
    THEN IF left.text # Unwrap(opposite).text
         THEN [dom |-> set_node_value(d, subject, left.text),
               log |-> <<SetTextOp(at, subject, left.text)>>]
         ELSE [dom |-> d, log |-> <<>>]
    ELSE IF mw
         THEN [dom |-> set_node_value(d, subject, left.text),
               log |-> <<SetTextOp(at, subject, left.text)>>]
         ELSE [dom |-> d, log |-> <<>>]

VTagRender(subject, opposite, at) ==
    <<RenderOp(at, subject, IsSome(opposite),
               IF IsSome(opposite) THEN Unwrap(opposite).tag ELSE "")>>

(***************************************************************************)
(* impl PartialEq for VNode: two nodes of the same variant are compared by *)
(* their VTag or VText alone, two of different variants are unequal.  The  *)
(* comparisons of VTag and VText are not in this file; they compare what   *)
(* the caller wrote (tag and childs, text), the childs again as VNodes.    *)
(***************************************************************************)
RECURSIVE eq(_, _)
VTextEq(vtext_a, vtext_b) == vtext_a.text = vtext_b.text

VTagEq(vtag_a, vtag_b) ==
    /\ vtag_a.tag = vtag_b.tag
    /\ Len(vtag_a.childs) = Len(vtag_b.childs)
    /\ \A i \in 1..Len(vtag_a.childs) : eq(vtag_a.childs[i], vtag_b.childs[i])

\* A variant with a defect: the references are compared as well.
eq_with_reference(a, b) ==
    /\ a.kind = b.kind
    /\ a.reference = b.reference
    /\ IF a.kind = "VTag" THEN VTagEq(a, b) ELSE VTextEq(a, b)

eq(a, b) ==
    IF a.kind = "VTag" /\ b.kind = "VTag" THEN VTagEq(a, b)
    ELSE IF a.kind = "VText" /\ b.kind = "VText" THEN VTextEq(a, b)
    ELSE FALSE

RECURSIVE Rebound(_)
\* The same virtual tree with every reference on another live node.
Rebound(v) ==
    IF v.kind = "VTag"
    THEN [v EXCEPT !.reference = IF IsSome(@) THEN Some(Unwrap(@) + 1) ELSE @,
                   !.childs = [i \in 1..Len(@) |-> Rebound(@[i])]]
    ELSE [v EXCEPT !.reference = IF IsSome(@) THEN Some(Unwrap(@) + 1) ELSE @]

(***************************************************************************)
(* Live-node handles are opaque.  Between two operations the live nodes    *)
(* that are neither attached under Body nor referenced by the generation   *)
(* the caller keeps are unreachable; they are reclaimed, and the remaining *)
(* handles are renumbered in pre-order (a renaming of handles only).       *)
(***************************************************************************)
RECURSIVE AddRoots(_, _, _)
AddRoots(d, order, roots) ==
    IF roots = <<>> THEN order
    ELSE LET more == SelectSeq(Subtree(d, Head(roots)),
                               LAMBDA n : n \notin Range(order))
         IN  AddRoots(d, order \o more, Tail(roots))

Reachable(d, cur) == AddRoots(d, Subtree(d, Body), OptRefs(cur))

RenameDom(d, order) ==
    [k \in 1..Len(order) |->
        [d[order[k]] EXCEPT
            !.kids = [j \in 1..Len(d[order[k]].kids) |->
                        IndexOf(order, d[order[k]].kids[j])]]]

RECURSIVE RenameNode(_, _)
RenameNode(v, order) ==
    LET r == IF IsSome(v.reference)
             THEN Some(IndexOf(order, Unwrap(v.reference)))
             ELSE None
    IN  IF v.kind = "VTag"
        THEN VTagNode(v.tag,
                      [i \in 1..Len(v.childs) |-> RenameNode(v.childs[i], order)],
                      r)
        ELSE VTextNode(v.text, r)

RenameOpt(o, order) == IF IsSome(o) THEN Some(RenameNode(Unwrap(o), order)) ELSE None

(***************************************************************************)
(* The state machine.  A frame is one active call of apply: the path of    *)
(* its self in the generation being applied, its parent, its `last`, and,  *)
(* once the match is done, element_mut and the padded lefts and rights     *)
(* with the position i of the pairing loop.  The rights not yet taken by   *)
(* the loop are rights[i..].                                               *)
(***************************************************************************)
Frame(path, parent, last) ==
    [path |-> path, parent |-> parent, last |-> last, phase |-> "enter",
     element |-> 0, lefts |-> <<>>, rights |-> <<>>, i |-> 1]

Top == stack[Len(stack)]
Pop == SubSeq(stack, 1, Len(stack) - 1)
SetTop(f) == [stack EXCEPT ![Len(stack)] = f]

ApplyCall(f) == [fn |-> "apply", at |-> f.path, parent |-> f.parent, arg |-> f.last]
RemoveCall(at, parent, v) == [fn |-> "remove", at |-> at, parent |-> parent, arg |-> Some(v)]

Init ==
    /\ dom = <<Element("body")>>
    /\ current = None
    /\ self = None
    /\ stack = <<>>
    /\ pc = "idle"
    /\ log = <<>>
    /\ calls = <<>>
    /\ mountWrite \in BOOLEAN

\* The caller starts a pass: tree.apply(&body, last, messages), where last is the
\* generation kept from the previous pass (None before the first).
StartPass(tree) ==
    /\ pc = "idle"
    /\ stack' = <<Frame(<<>>, Body, current)>>
    /\ self' = Some(tree)
    /\ current' = None
    /\ pc' = "apply"
    /\ UNCHANGED <<dom, log, calls, mountWrite>>

\* The caller starts a pass against a previous node that was never applied
\* (it holds no reference), while it keeps no generation.
StartPassUnbound(tree, previous) ==
    /\ pc = "idle"
    /\ current = None
    /\ stack' = <<Frame(<<>>, Body, Some(previous))>>
    /\ self' = Some(tree)
    /\ pc' = "apply"
    /\ UNCHANGED <<dom, current, log, calls, mountWrite>>

\* apply, self a VTag, lines 46-103: the match on last, the renderer, the padding.
ApplyVTag ==
    /\ pc = "apply"
    /\ Top.phase = "enter"
    /\ NodeAt(Unwrap(self), Top.path).kind = "VTag"
    /\ LET f == Top
           left == NodeAt(Unwrap(self), f.path)
           m == MatchVTag(dom, left, f.parent, f.last, f.path)
           element_mut == Unwrap(m.reference)
           rights == Rights(m.right)
           lefts == Lefts(left)
       IN  /\ dom' = m.dom
           /\ self' = Some(SetReference(Unwrap(self), f.path, m.reference))
           /\ log' = log \o m.log \o VTagRender(element_mut, m.right, f.path)
           /\ calls' = Append(calls, ApplyCall(f))
           /\ stack' = SetTop([f EXCEPT !.phase = "pairs",
                                        !.last = TakeLast(f.last),
                                        !.element = element_mut,
                                        !.lefts = PadLefts(lefts, rights),
                                        !.rights = PadRights(lefts, rights),
                                        !.i = 1])
    /\ UNCHANGED <<current, pc, mountWrite>>

\* apply, self a VText, lines 119-148: the match on last and the renderer.
ApplyVText ==
    /\ pc = "apply"
    /\ Top.phase = "enter"
    /\ NodeAt(Unwrap(self), Top.path).kind = "VText"
    /\ LET f == Top
           left == NodeAt(Unwrap(self), f.path)
           m == MatchVText(dom, left, f.parent, f.last, f.path)
           element_mut == Unwrap(m.reference)
           r == VTextRender(m.dom, left, element_mut, m.right, f.path, mountWrite)
       IN  /\ dom' = r.dom
           /\ self' = Some(SetReference(Unwrap(self), f.path, m.reference))
           /\ log' = log \o m.log \o r.log
           /\ calls' = Append(calls, ApplyCall(f))
           /\ stack' = SetTop([f EXCEPT !.phase = "pairs",
                                        !.last = TakeLast(f.last),
                                        !.element = element_mut])
    /\ UNCHANGED <<current, pc, mountWrite>>

\* The pairing loop, (Some(left), right): left.apply(element_mut, right, messages).
PairApply ==
    /\ pc = "apply"
    /\ Top.phase = "pairs"
    /\ Top.i <= ZipLen(Top.lefts, Top.rights)
    /\ IsSome(Top.lefts[Top.i])
    /\ LET f == Top
           child == f.path \o <<Unwrap(f.lefts[f.i])>>
       IN  stack' = Append(SetTop([f EXCEPT !.i = f.i + 1]),
                           Frame(child, f.element, f.rights[f.i]))
    /\ UNCHANGED <<dom, current, self, pc, log, calls, mountWrite>>

\* The pairing loop, (None, Some(right)): right.remove(element_mut);
\* (None, None): panic!("redundant iterations during diff").
PairRemove ==
    /\ pc = "apply"
    /\ Top.phase = "pairs"
    /\ Top.i <= ZipLen(Top.lefts, Top.rights)
    /\ ~IsSome(Top.lefts[Top.i])
    /\ LET f == Top
           at == f.path \o <<f.i>>
       IN  IF IsSome(f.rights[f.i])
           THEN LET right == Unwrap(f.rights[f.i])
                    r == remove(dom, right, f.element, at)
                IN  /\ dom' = r.dom
                    /\ log' = log \o r.log
                    /\ calls' = Append(calls, RemoveCall(at, f.element, right))
                    /\ stack' = SetTop([f EXCEPT !.i = f.i + 1])
                    /\ pc' = pc
           ELSE /\ pc' = "panicked"
                /\ UNCHANGED <<dom, log, calls, stack>>
    /\ UNCHANGED <<current, self, mountWrite>>

\* The call on top of the stack returns; when it is the caller's, the pass is over
\* and the caller keeps the applied generation.
Return ==
    /\ pc = "apply"
    /\ Top.phase = "pairs"
    /\ Top.i > ZipLen(Top.lefts, Top.rights)
    /\ stack' = Pop
    /\ IF Len(stack) = 1
       THEN /\ current' = self
            /\ self' = None
            /\ pc' = "done"
       ELSE UNCHANGED <<current, self, pc>>
    /\ UNCHANGED <<dom, log, calls, mountWrite>>

\* The generation the caller keeps is discarded: current.remove(&body).
RemoveCurrent ==
    /\ pc = "idle"
    /\ IsSome(current)
    /\ LET r == remove(dom, Unwrap(current), Body, <<>>)
       IN  /\ dom' = r.dom
           /\ log' = r.log
           /\ calls' = <<RemoveCall(<<>>, Body, Unwrap(current))>>
    /\ current' = None
    /\ pc' = "done"
    /\ UNCHANGED <<self, stack, mountWrite>>

\* A node that was never applied is discarded: node.remove(&body).
RemoveUnbound(node) ==
    /\ pc = "idle"
    /\ LET r == remove(dom, node, Body, <<>>)
       IN  /\ dom' = r.dom
           /\ log' = r.log
           /\ calls' = <<RemoveCall(<<>>, Body, node)>>
    /\ pc' = "done"
    /\ UNCHANGED <<current, self, stack, mountWrite>>

\* The caller compares the generation it keeps with another node: current == other.
EqCall(other, result) ==
    [fn |-> "eq", at |-> <<>>, parent |-> Body, arg |-> Some(other),
     result |-> result]

\* What the kept generation is compared with: a tree just built, or the kept
\* generation itself as bound to other live nodes.
Others ==
    Trees \cup (IF IsSome(current) THEN {Rebound(Unwrap(current))} ELSE {})

Compare(other) ==
    /\ pc = "idle"
    /\ IsSome(current)
    /\ calls' = <<EqCall(other, eq(Unwrap(current), other))>>
    /\ pc' = "done"
    /\ UNCHANGED <<dom, current, self, stack, log, mountWrite>>

\* Between two operations: the records of the finished one are dropped, the
\* unreachable live nodes are reclaimed and the handles renumbered.
Settle ==
    /\ pc = "done"
    /\ LET order == Reachable(dom, current)
       IN  /\ dom' = RenameDom(dom, order)
           /\ current' = RenameOpt(current, order)
    /\ log' = <<>>
    /\ calls' = <<>>
    /\ pc' = "idle"
    /\ UNCHANGED <<self, stack, mountWrite>>

Next ==
    \/ \E tree \in Trees : StartPass(tree)
    \/ \E tree \in Trees, previous \in Kids : StartPassUnbound(tree, previous)
    \/ ApplyVTag
    \/ ApplyVText
    \/ PairApply
    \/ PairRemove
    \/ Return
    \/ RemoveCurrent
    \/ \E node \in Kids : RemoveUnbound(node)
    \/ \E other \in Others : Compare(other)
    \/ Settle

Spec == Init /\ [][Next]_vars

(***************************************************************************)
(* Drift: between two operations something outside this system detaches a  *)
(* live node from its parent (one drift at a time: every node the kept     *)
(* generation references is still attached).                               *)
(***************************************************************************)
Attached(d, node) == ParentsOf(d, node) # {}

ExternalRemove(node) ==
    /\ pc = "idle"
    /\ \A n \in Range(OptRefs(current)) : Attached(dom, n)
    /\ Attached(dom, node)
    /\ LET d == Unlink(dom, node)
           order == Reachable(d, current)
       IN  /\ dom' = RenameDom(d, order)
           /\ current' = RenameOpt(current, order)
    /\ UNCHANGED <<self, stack, pc, log, calls, mountWrite>>

NextDrift ==
    \/ Next
    \/ \E node \in 1..Len(dom) : ExternalRemove(node)

SpecDrift == Init /\ [][NextDrift]_vars

(***************************************************************************)
(* Vocabulary of the properties.                                           *)
(***************************************************************************)
\* A pass has run to its end and its records are still there.
PassDone == pc = "done" /\ calls # <<>> /\ calls[1].fn = "apply"

\* The generation being applied or, once the pass is over, the applied one.
Applied == IF IsSome(self) THEN Unwrap(self) ELSE Unwrap(current)

ApplyCalls == {k \in 1..Len(calls) : calls[k].fn = "apply"}
Bound(o) == IsSome(o) /\ IsSome(Unwrap(o).reference)
BoundKind(o, kind) == Bound(o) /\ Unwrap(o).kind = kind

\* The call k of apply had a bound previous VTag of the same tag (the reuse case).
Matched(k) ==
    /\ NodeAt(Applied, calls[k].at).kind = "VTag"
    /\ BoundKind(calls[k].arg, "VTag")
    /\ Unwrap(calls[k].arg).tag = NodeAt(Applied, calls[k].at).tag

\* Two nodes of the same variant and, for tags, the same tag.
SameKind(a, b) == a.kind = b.kind /\ (a.kind = "VTag" => a.tag = b.tag)

RECURSIVE SameShape(_, _)
SameShape(a, b) ==
    /\ SameKind(a, b)
    /\ a.kind = "VTag" =>
        /\ Len(a.childs) = Len(b.childs)
        /\ \A i \in 1..Len(a.childs) : SameShape(a.childs[i], b.childs[i])

RECURSIVE FullyBound(_)
FullyBound(v) ==
    /\ IsSome(v.reference)
    /\ \A i \in 1..Len(Childs(v)) : FullyBound(v.childs[i])

StructuralOps ==
    {"create_element", "create_text_node", "append_child", "replace_child",
     "remove_child"}

\* The entries of the log issued by the own step of the node at path.
OpsAt(path) == SelectSeq(log, LAMBDA e : e.at = path)
OpNames(ops) == [k \in 1..Len(ops) |-> ops[k].op]
\* The requests of kind op made on the live node target, in order.
OpsOn(op, target) == SelectSeq(log, LAMBDA e : e.op = op /\ e.target = target)

NoDup(s) == \A a, b \in 1..Len(s) : a # b => s[a] # s[b]

\* Every live reference a virtual node holds: in the kept generation, in the
\* generation being applied, and in what the active calls still hold of the
\* previous generation (a call's last before its match, its rights not yet taken).
Held ==
    OptRefs(current) \o OptRefs(self) \o
    Flatten([k \in 1..Len(stack) |->
        LET f == stack[k]
            pending == SubSeq(f.rights, f.i, Len(f.rights))
        IN  OptRefs(f.last)
              \o Flatten([j \in 1..Len(pending) |-> OptRefs(pending[j])])])

RECURSIVE InSync(_, _)
\* The live subtree under v's reference mirrors v: tags, kinds, children in order.
InSync(d, v) ==
    /\ IsSome(v.reference)
    /\ IF v.kind = "VTag"
       THEN /\ d[Unwrap(v.reference)].kind = "Element"
            /\ d[Unwrap(v.reference)].tag = v.tag
            /\ \A i \in 1..Len(v.childs) : IsSome(v.childs[i].reference)
            /\ d[Unwrap(v.reference)].kids
                 = [i \in 1..Len(v.childs) |-> Unwrap(v.childs[i].reference)]
            /\ \A i \in 1..Len(v.childs) : InSync(d, v.childs[i])
       ELSE d[Unwrap(v.reference)].kind = "Text"

Returning ==
    /\ pc = "apply"
    /\ Top.phase = "pairs"
    /\ Top.i > ZipLen(Top.lefts, Top.rights)

(***************************************************************************)
(* C1.  When a call apply(self, parent, previous) returns, whatever the    *)
(* previous generation was, self holds a reference and the referenced live *)
(* node is a child of parent.                                              *)
(***************************************************************************)
C1_BoundAndAttachedOnReturn ==
    Returning =>
        LET v == NodeAt(Unwrap(self), Top.path)
        IN  /\ IsSome(v.reference)
            /\ IsChild(dom, Top.parent, Unwrap(v.reference))

\* A nested element returns whose previous was a bound element of another tag.
C1_Witness ==
    /\ Returning
    /\ Top.path # <<>>
    /\ \E k \in ApplyCalls :
        /\ calls[k].at = Top.path
        /\ NodeAt(Unwrap(self), Top.path).kind = "VTag"
        /\ BoundKind(calls[k].arg, "VTag")
        /\ ~Matched(k)

(***************************************************************************)
(* C2.  After any sequence of passes, each against the generation of the   *)
(* pass before and with no external mutation, the live subtree under the   *)
(* root's reference mirrors the latest generation: the live children of    *)
(* every VTag's element are the references of its childs, in order, every  *)
(* element carries its VTag's tag and every VText is bound to a text node. *)
(***************************************************************************)
C2_LiveTreeInSync ==
    (pc \in {"done", "idle"} /\ IsSome(current)) =>
        /\ InSync(dom, Unwrap(current))
        /\ IsChild(dom, Body, Unwrap(Unwrap(current).reference))

\* A pass against a bound generation of another shape (it replaced one child and
\* removed another) ended with a nested tree.
C2_Witness ==
    /\ PassDone
    /\ Bound(calls[1].arg)
    /\ \E k \in 1..Len(log) : log[k].op = "replace_child"
    /\ \E k \in 1..Len(log) : log[k].op = "remove_child"
    /\ \E i \in 1..Len(Childs(Unwrap(current))) :
          Childs(Unwrap(current).childs[i]) # <<>>

(***************************************************************************)
(* C3.  At every point during and after apply no live node is referenced   *)
(* by two virtual nodes: not by two nodes of one generation, and not by a  *)
(* node of the new generation and one of the previous at once.             *)
(***************************************************************************)
C3_ExclusiveBinding == NoDup(Held)

\* In the middle of a pass: the root took over the previous root's reference,
\* while previous children that hold references are still waiting to be paired.
C3_Witness ==
    /\ pc = "apply"
    /\ Len(stack) = 1
    /\ calls # <<>>
    /\ Matched(1)
    /\ NodeAt(Unwrap(self), <<>>).reference = Unwrap(calls[1].arg).reference
    /\ stack[1].i = 2
    /\ Len(stack[1].rights) = 2
    /\ Bound(stack[1].rights[2])

SameShapePass ==
    /\ PassDone
    /\ IsSome(calls[1].arg)
    /\ FullyBound(Unwrap(calls[1].arg))
    /\ SameShape(Unwrap(current), Unwrap(calls[1].arg))

(***************************************************************************)
(* C4.  A pass against a bound previous generation of the same shape (the  *)
(* same tags and child counts at every level) creates, appends, replaces   *)
(* and removes nothing: the only writes are text contents, and only where  *)
(* the content differs from the previous one (none for an exact copy).     *)
(***************************************************************************)
C4_NoStructuralOpsOnCopy ==
    SameShapePass =>
        \A k \in 1..Len(log) :
            /\ log[k].op \in {"render", "set_node_value"}
            /\ log[k].op = "set_node_value" =>
                 NodeAt(Unwrap(calls[1].arg), log[k].at).text # log[k].data

\* A nested tree was applied against a copy of itself in which one text differs.
C4_Witness ==
    /\ SameShapePass
    /\ Len(Childs(Unwrap(current))) = 2
    /\ \E i \in 1..2 : Childs(Unwrap(current).childs[i]) # <<>>
    /\ Len(SelectSeq(log, LAMBDA e : e.op = "set_node_value")) = 1

TagChanged(k) ==
    /\ NodeAt(Applied, calls[k].at).kind = "VTag"
    /\ BoundKind(calls[k].arg, "VTag")
    /\ Unwrap(calls[k].arg).tag # NodeAt(Applied, calls[k].at).tag

(***************************************************************************)
(* C5.  Applying a VTag against a bound previous VTag of another tag       *)
(* issues exactly one replace_child on parent (the new element for the     *)
(* previous one), no append_child and no remove_child for that node, and   *)
(* leaves self bound to the element just created, not to the previous one. *)
(***************************************************************************)
C5_ReplaceOnTagChange ==
    PassDone =>
        \A k \in ApplyCalls : TagChanged(k) =>
            LET c == calls[k]
                v == NodeAt(Applied, c.at)
                wrong == Unwrap(Unwrap(c.arg).reference)
                own == OpsAt(c.at)
            IN  /\ IsSome(v.reference)
                /\ Unwrap(v.reference) # wrong
                /\ Len(own) >= 2
                /\ own[1] = CreateElementOp(c.at, Unwrap(v.reference), v.tag)
                /\ own[2] = ReplaceOp(c.at, c.parent, Unwrap(v.reference), wrong, TRUE)
                /\ \A j \in 1..Len(log) :
                     /\ (log[j].op = "replace_child"
                            /\ (log[j].at = c.at \/ log[j].old = wrong
                                  \/ log[j].node = Unwrap(v.reference)))
                          => log[j] = own[2]
                     /\ log[j].op \in {"append_child", "remove_child"} =>
                          /\ log[j].at # c.at
                          /\ log[j].node \notin {wrong, Unwrap(v.reference)}

\* A child element of one tag was applied against a bound child of another tag
\* that had a child of its own.
C5_Witness ==
    /\ PassDone
    /\ \E k \in ApplyCalls :
        /\ TagChanged(k)
        /\ calls[k].at # <<>>
        /\ Unwrap(calls[k].arg).childs # <<>>

Transferred(k) ==
    LET c == calls[k]
        v == NodeAt(Applied, c.at)
        previous == Unwrap(c.arg)
    IN  \A i \in 1..Min(Len(v.childs), Len(previous.childs)) :
            (SameKind(v.childs[i], previous.childs[i])
                /\ IsSome(previous.childs[i].reference))
              => v.childs[i].reference = previous.childs[i].reference

(***************************************************************************)
(* C6.  Growth.  Applying a VTag with N childs against a matched previous  *)
(* VTag with M < N childs appends exactly N - M nodes to the element, one  *)
(* for each position M+1..N, each created and appended (never put in by    *)
(* replace_child); a child at a position 1..M whose previous child has the *)
(* same shape takes over that child's reference.                           *)
(***************************************************************************)
C6_Growth ==
    PassDone =>
        \A k \in ApplyCalls :
            (Matched(k)
               /\ Len(Unwrap(calls[k].arg).childs) < Len(NodeAt(Applied, calls[k].at).childs))
            => LET c == calls[k]
                   v == NodeAt(Applied, c.at)
                   M == Len(Unwrap(c.arg).childs)
                   N == Len(v.childs)
                   element == Unwrap(v.reference)
                   appended == OpsOn("append_child", element)
               IN  /\ Len(appended) = N - M
                   /\ \A i \in 1..(N - M) :
                        LET child == v.childs[M + i]
                            own == OpsAt(c.at \o <<M + i>>)
                        IN  /\ IsSome(child.reference)
                            /\ appended[i]
                                 = AppendOp(c.at \o <<M + i>>, element,
                                            Unwrap(child.reference))
                            /\ Len(own) >= 2
                            /\ own[1].op \in {"create_element", "create_text_node"}
                            /\ own[1].node = Unwrap(child.reference)
                            /\ own[2] = appended[i]
                            /\ \A j \in 1..Len(own) : own[j].op # "replace_child"
                   /\ OpsOn("remove_child", element) = <<>>
                   /\ Transferred(k)

\* A root with two childs was applied against a matched root with one child of
\* the same kind as the first.
C6_Witness ==
    /\ PassDone
    /\ Matched(1)
    /\ Len(Unwrap(calls[1].arg).childs) = 1
    /\ Len(Unwrap(current).childs) = 2
    /\ SameKind(Unwrap(current).childs[1], Unwrap(calls[1].arg).childs[1])

(***************************************************************************)
(* C7.  Shrinkage.  Applying a VTag with N childs against a matched        *)
(* previous VTag with M > N childs requests exactly M - N removals from    *)
(* the element: the live nodes of the previous childs N+1..M, in that      *)
(* order; the first N stay: none is the target of a remove_child, and      *)
(* where the shape matches the reference passes to the new child.          *)
(***************************************************************************)
C7_Shrinkage ==
    PassDone =>
        \A k \in ApplyCalls :
            (Matched(k)
               /\ Len(Unwrap(calls[k].arg).childs) > Len(NodeAt(Applied, calls[k].at).childs))
            => LET c == calls[k]
                   v == NodeAt(Applied, c.at)
                   previous == Unwrap(c.arg)
                   M == Len(previous.childs)
                   N == Len(v.childs)
                   element == Unwrap(v.reference)
                   removed == OpsOn("remove_child", element)
               IN  /\ Len(removed) = M - N
                   /\ \A i \in 1..(M - N) :
                        removed[i]
                          = RemoveOp(c.at \o <<N + i>>, element,
                                     Unwrap(previous.childs[N + i].reference), TRUE)
                   /\ \A i \in 1..N, j \in 1..Len(log) :
                        log[j].op = "remove_child"
                          => log[j].node # Unwrap(previous.childs[i].reference)
                   /\ OpsOn("append_child", element) = <<>>
                   /\ Transferred(k)

\* A root with one child was applied against a matched root with two childs, the
\* first of the same kind.
C7_Witness ==
    /\ PassDone
    /\ Matched(1)
    /\ Len(Unwrap(calls[1].arg).childs) = 2
    /\ Len(Unwrap(current).childs) = 1
    /\ SameKind(Unwrap(current).childs[1], Unwrap(calls[1].arg).childs[1])

TextOnText(k) ==
    /\ NodeAt(Applied, calls[k].at).kind = "VText"
    /\ BoundKind(calls[k].arg, "VText")

(***************************************************************************)
(* C8.  Text update minimality.  Applying a VText against a bound previous *)
(* VText issues nothing when the contents are equal, and exactly one       *)
(* set_node_value, carrying the new content, when they differ (no          *)
(* create_text_node, no replace_child in either case).                     *)
(***************************************************************************)
C8_TextUpdateMinimal ==
    PassDone =>
        \A k \in ApplyCalls : TextOnText(k) =>
            LET c == calls[k]
                v == NodeAt(Applied, c.at)
                previous == Unwrap(c.arg)
            IN  OpsAt(c.at)
                  = IF v.text = previous.text
                    THEN <<>>
                    ELSE <<SetTextOp(c.at, Unwrap(previous.reference), v.text)>>

\* One pass applied a text against an equal text and another against a different one.
C8_Witness ==
    /\ PassDone
    /\ \E k \in ApplyCalls :
        TextOnText(k) /\ NodeAt(Applied, calls[k].at).text = Unwrap(calls[k].arg).text
    /\ \E k \in ApplyCalls :
        TextOnText(k) /\ NodeAt(Applied, calls[k].at).text # Unwrap(calls[k].arg).text

\* The step is a call of remove (the last record of calls' is that call).
RemoveStep ==
    /\ calls' # calls
    /\ calls' # <<>>
    /\ calls'[Len(calls')].fn = "remove"

RemovedNode == Unwrap(calls'[Len(calls')].arg)
\* The primitives the step issued (an idle state has an empty log).
NewOps == SubSeq(log', Len(log) + 1, Len(log'))

(***************************************************************************)
(* C9.  remove on a node that holds no reference is a no-op: no primitive  *)
(* is issued, the live tree stays as it is, nothing fails.                 *)
(***************************************************************************)
C9_RemoveUnboundIsNoOp ==
    [][(RemoveStep /\ ~IsSome(RemovedNode.reference))
         => (dom' = dom /\ log' = <<>> /\ pc' = "done")]_vars

\* remove has just been called on an element with a child, neither ever applied.
C9_Witness ==
    /\ pc = "done"
    /\ Len(calls) = 1
    /\ calls[1].fn = "remove"
    /\ ~IsSome(Unwrap(calls[1].arg).reference)
    /\ Childs(Unwrap(calls[1].arg)) # <<>>
    /\ log = <<>>

(***************************************************************************)
(* C10.  remove on a node that holds a reference issues exactly one        *)
(* remove_child(parent, node) and nothing for the node's descendants.      *)
(* When the primitive reports that the node is not under parent, remove    *)
(* only warns: the live tree stays as it is, nothing fails, and the        *)
(* pairing loop of an enclosing apply goes on to its next pair.            *)
(***************************************************************************)
C10_RemoveBound ==
    [][(RemoveStep /\ IsSome(RemovedNode.reference))
         => LET c == calls'[Len(calls')]
                node == Unwrap(RemovedNode.reference)
                ok == IsChild(dom, c.parent, node)
            IN  /\ NewOps = <<RemoveOp(c.at, c.parent, node, ok)>>
                              \o (IF ok THEN <<>> ELSE <<WarnOp(c.at, node)>>)
                /\ ~ok => dom' = dom
                /\ pc' # "panicked"
                /\ pc = "apply" =>
                     /\ pc' = "apply"
                     /\ Len(stack') = Len(stack)
                     /\ Top'.i = Top.i + 1]_vars

\* Inside a pass the removal of an element with a child of its own has just
\* failed (the element had been detached from outside), and a pair is left.
C10_Witness ==
    /\ pc = "apply"
    /\ log # <<>>
    /\ log[Len(log)].op = "warn"
    /\ calls[Len(calls)].fn = "remove"
    /\ Childs(Unwrap(calls[Len(calls)].arg)) # <<>>
    /\ Top.phase = "pairs"
    /\ Top.i <= ZipLen(Top.lefts, Top.rights)

\* The record of the call of apply that the frame f belongs to.
CallOf(f) == CHOOSE k \in ApplyCalls : calls[k].at = f.path
Max(a, b) == IF a > b THEN a ELSE b

(***************************************************************************)
(* C11.  In every call of apply on a VTag with N childs whose matched      *)
(* previous has M childs (M = 0 without a matched previous), the padding   *)
(* leaves lefts and rights both of length max(N, M), the pairing loop      *)
(* visits max(N, M) positions, no position holds (None, None), and the     *)
(* panic of that arm is never reached.                                     *)
(***************************************************************************)
C11_PaddingToMax ==
    /\ pc # "panicked"
    /\ \A j \in 1..Len(stack) :
        LET f == stack[j] IN
        (pc = "apply" /\ f.phase = "pairs"
            /\ NodeAt(Unwrap(self), f.path).kind = "VTag") =>
            LET k == CallOf(f)
                N == Len(NodeAt(Unwrap(self), f.path).childs)
                M == IF Matched(k) THEN Len(Unwrap(calls[k].arg).childs) ELSE 0
            IN  /\ Len(f.lefts) = Max(N, M)
                /\ Len(f.rights) = Max(N, M)
                /\ ZipLen(f.lefts, f.rights) = Max(N, M)
                /\ f.i <= Max(N, M) + 1
                /\ \A p \in 1..Max(N, M) :
                     IsSome(f.lefts[p]) \/ IsSome(f.rights[p])

\* The loop of a call with one child against a matched previous with two has
\* come to its end; and so has, elsewhere, one with two against one.
C11_Witness ==
    /\ pc = "apply"
    /\ Top.phase = "pairs"
    /\ NodeAt(Unwrap(self), Top.path).kind = "VTag"
    /\ Matched(CallOf(Top))
    /\ Len(NodeAt(Unwrap(self), Top.path).childs) = 1
    /\ Len(Unwrap(calls[CallOf(Top)].arg).childs) = 2
    /\ Top.i = 3

RECURSIVE Paths(_)
\* The paths of the nodes of a virtual tree.
Paths(v) ==
    {<<>>} \cup UNION {{<<i>> \o p : p \in Paths(v.childs[i])} :
                          i \in 1..Len(Childs(v))}

\* The previous generation handed to the pass, as it was when the pass began.
Previous == Unwrap(calls[1].arg)

\* The nodes of the previous generation that held a reference the pass did not
\* move into the new generation.
Discarded ==
    {p \in Paths(Previous) :
        /\ IsSome(NodeAt(Previous, p).reference)
        /\ Unwrap(NodeAt(Previous, p).reference) \notin Range(Refs(Applied))}

\* The live nodes the pass took out of their parent: by remove_child, or as
\* the old node of a replace_child.
TakenOut ==
    {log[j].node : j \in {i \in 1..Len(log) : log[i].op = "remove_child" /\ log[i].ok}}
      \cup {log[j].old : j \in {i \in 1..Len(log) : log[i].op = "replace_child" /\ log[i].ok}}

\* C12 as first stated: each discarded node that held a reference has had its live
\* node detached by remove, that is by a remove_child request of its own.
C12_AsStated ==
    (PassDone /\ IsSome(calls[1].arg)) =>
        \A p \in Discarded :
            \E j \in 1..Len(log) :
                /\ log[j].op = "remove_child"
                /\ log[j].node = Unwrap(NodeAt(Previous, p).reference)

(***************************************************************************)
(* C12.  After a pass on an undisturbed live tree, every node of the       *)
(* previous generation that held a reference the pass did not move into    *)
(* the new generation has its live node out of the live tree under Body:   *)
(* the node itself or one of its ancestors in the previous generation was  *)
(* taken out of its parent, by remove (a previous child without a new      *)
(* counterpart) or as the old node of a replace_child (a previous node of  *)
(* another kind or tag).  A node under a removed or replaced one gets no   *)
(* request of its own.                                                     *)
(***************************************************************************)
C12_DiscardedDetached ==
    (PassDone /\ IsSome(calls[1].arg)) =>
        \A p \in Discarded :
            /\ Unwrap(NodeAt(Previous, p).reference) \notin Range(Subtree(dom, Body))
            /\ \E n \in 0..Len(p) :
                 Unwrap(NodeAt(Previous, SubSeq(p, 1, n)).reference) \in TakenOut

\* A previous child element with a child of its own was replaced by a node of
\* another kind or tag, and a later previous child was removed.
C12_Witness ==
    /\ PassDone
    /\ IsSome(calls[1].arg)
    /\ \E p, q, r \in Discarded :
        /\ Len(p) = 1 /\ Len(q) = 2 /\ Len(r) = 1
        /\ SubSeq(q, 1, 1) = p
        /\ \E j \in 1..Len(log) :
             /\ log[j].op = "replace_child"
             /\ log[j].old = Unwrap(NodeAt(Previous, p).reference)
        /\ \E j \in 1..Len(log) :
             /\ log[j].op = "remove_child"
             /\ log[j].node = Unwrap(NodeAt(Previous, r).reference)

\* The live nodes the requests of the pass so far were aimed at, in order: the
\* node of each remove_child and the old node of each replace_child.
Targets ==
    LET reqs == SelectSeq(log, LAMBDA e : e.op \in {"remove_child", "replace_child"})
    IN  [j \in 1..Len(reqs) |->
            IF reqs[j].op = "remove_child" THEN reqs[j].node ELSE reqs[j].old]

(***************************************************************************)
(* C13.  At every point of a pass no live node has been the target (the    *)
(* node of a remove_child, the old node of a replace_child) of more than   *)
(* one request, and no node whose reference the new generation holds has   *)
(* been the target of any.                                                 *)
(***************************************************************************)
C13_NoDoubleRemoval ==
    (pc \in {"apply", "done"} /\ calls # <<>> /\ calls[1].fn = "apply") =>
        /\ NoDup(Targets)
        /\ Range(Targets) \cap Range(Refs(Applied)) = {}

\* A pass that kept the root element, replaced its first child and removed the
\* second.
C13_Witness ==
    /\ PassDone
    /\ IsSome(calls[1].arg)
    /\ Len(Targets) = 2
    /\ \E j \in 1..Len(log) : log[j].op = "replace_child"
    /\ \E j \in 1..Len(log) : log[j].op = "remove_child"
    /\ Range(Refs(Previous)) \cap Range(Refs(Applied)) # {}

\* Pre-order of paths: a node comes before its descendants, and the whole
\* subtree of child i before child i + 1.
PreLeq(p, q) ==
    LET n == Min(Len(p), Len(q))
        differ == {i \in 1..n : p[i] # q[i]}
    IN  IF differ = {}
        THEN Len(p) <= Len(q)
        ELSE LET i == CHOOSE m \in differ : \A o \in differ : m <= o
             IN  p[i] < q[i]

(***************************************************************************)
(* C14.  The primitives and renderer calls of a pass are issued in         *)
(* depth-first pre-order of the virtual tree: everything issued for a node *)
(* itself (its reuse, create and append, or create and replace step, then  *)
(* its renderer call, which comes last) precedes everything issued for its *)
(* childs, and everything issued for child i, its whole subtree included,  *)
(* precedes everything issued for child i + 1.                             *)
(***************************************************************************)
C14_PreOrder ==
    \A j, k \in 1..Len(log) : j < k =>
        /\ PreLeq(log[j].at, log[k].at)
        /\ log[j].at = log[k].at => log[j].op \notin {"render", "set_node_value"}

\* A mount of an element over an element with a child of its own and a text:
\* requests for the root, the first child, the grandchild and the second child.
C14_Witness ==
    /\ PassDone
    /\ \A p \in {<<>>, <<1>>, <<1, 1>>, <<2>>} :
         \E j \in 1..Len(log) : log[j].at = p /\ log[j].op \in StructuralOps
    /\ \E j \in 1..Len(log) : log[j].op = "render" /\ log[j].at = <<1>>

RECURSIVE Descriptor(_)
\* A virtual node without its references: what the caller wrote.
Descriptor(v) ==
    IF v.kind = "VTag"
    THEN FromVTag(v.tag, [i \in 1..Len(v.childs) |-> Descriptor(v.childs[i])])
    ELSE FromVText(v.text)

\* The pass of the list scenario: the list of three applied against the bound
\* list of two.
ListPass ==
    /\ PassDone
    /\ IsSome(calls[1].arg)
    /\ Previous.kind = "VTag"
    /\ FullyBound(Previous)
    /\ Descriptor(Previous) = ListBefore
    /\ Applied.kind = "VTag"
    /\ Descriptor(Applied) = ListAfter

(***************************************************************************)
(* C15.  Applying the list ul[x, z, w] against the bound list ul[x, y]     *)
(* keeps the ul element and the first text (no request for either), sets   *)
(* the second text from y to z on its live node, and creates a text w and  *)
(* appends it to ul: no element is created or replaced, and nothing is     *)
(* removed.  (Whether the renderer also writes the content of the text     *)
(* just created is left open.)                                             *)
(***************************************************************************)
C15_ListScenario ==
    ListPass =>
        LET ul == Unwrap(Previous.reference)
            x == Unwrap(Previous.childs[1].reference)
            y == Unwrap(Previous.childs[2].reference)
            w == Unwrap(Applied.childs[3].reference)
        IN  /\ Refs(Applied) = <<ul, x, y, w>>
            /\ w \notin Range(Refs(Previous))
            /\ SelectSeq(log, LAMBDA e : e.op \in StructuralOps)
                 = <<CreateTextOp(<<3>>, w, "w"), AppendOp(<<3>>, ul, w)>>
            /\ SelectSeq(log, LAMBDA e : e.op = "set_node_value" /\ e.node # w)
                 = <<SetTextOp(<<2>>, y, "z")>>
            /\ OpsAt(<<>>) = <<RenderOp(<<>>, ul, TRUE, "ul")>>
            /\ OpsAt(<<1>>) = <<>>
            /\ dom[Body].kids = <<ul>>
            /\ dom[ul] = [Element("ul") EXCEPT !.kids = <<x, y, w>>]
            /\ dom[x] = TextNode("x")
            /\ dom[y] = TextNode("z")
            /\ dom[w] = TextNode("w")

\* The list pass has run, with the list of two mounted by an earlier pass.
C15_Witness ==
    /\ ListPass
    /\ Len(log) >= 4
    /\ dom[Body].kids = <<Unwrap(Applied.reference)>>

\* A comparison has just been made; its two sides and its result.
Compared == pc = "done" /\ calls # <<>> /\ calls[1].fn = "eq"

(***************************************************************************)
(* C16.  Structural equality depends on the descriptors alone: two nodes   *)
(* are equal exactly when they are of the same variant and what the caller *)
(* wrote (tag and childs, or text) is the same, whatever their references  *)
(* (none, or other live nodes); a VTag never equals a VText.               *)
(***************************************************************************)
C16_EqualityIgnoresBinding ==
    Compared =>
        LET a == Unwrap(current)
            b == Unwrap(calls[1].arg)
        IN  /\ calls[1].result
                 = (a.kind = b.kind /\ Descriptor(a) = Descriptor(b))
            /\ a.kind # b.kind => ~calls[1].result

\* A bound element with childs was found equal to a node with the same
\* descriptor and no reference, or with other references.
C16_Witness ==
    /\ Compared
    /\ calls[1].result
    /\ Childs(Unwrap(current)) # <<>>
    /\ FullyBound(Unwrap(current))
    /\ Refs(Unwrap(current)) # Refs(Unwrap(calls[1].arg))

\* The call k of apply on a VTag took the branch that keeps the previous element:
\* the reference of the previous node is now the node's own.
ReuseTaken(k) ==
    /\ NodeAt(Applied, calls[k].at).kind = "VTag"
    /\ Bound(calls[k].arg)
    /\ NodeAt(Applied, calls[k].at).reference = Unwrap(calls[k].arg).reference

(***************************************************************************)
(* C17.  A call of apply on a VTag keeps the previous live element exactly *)
(* when its previous is a bound VTag of the same tag.  Then the node's own *)
(* step issues no create_element, append_child, replace_child or           *)
(* remove_child, the node's reference is the previous node's live element, *)
(* and the renderer is called on that element with the previous VTag as    *)
(* matched previous.                                                       *)
(***************************************************************************)
C17_ReuseExactlyOnSameTag ==
    (pc \in {"apply", "done"} /\ calls # <<>> /\ calls[1].fn = "apply") =>
        \A k \in ApplyCalls :
            NodeAt(Applied, calls[k].at).kind = "VTag" =>
                /\ ReuseTaken(k) <=> Matched(k)
                /\ Matched(k) =>
                     LET c == calls[k]
                         previous == Unwrap(c.arg)
                     IN  OpsAt(c.at)
                           = <<RenderOp(c.at, Unwrap(previous.reference), TRUE,
                                        previous.tag)>>

\* In one pass a child element was kept against a bound previous of its tag and
\* another element was not, its bound previous having another tag.
C17_Witness ==
    /\ PassDone
    /\ \E k \in ApplyCalls : Matched(k) /\ calls[k].at # <<>>
    /\ \E k \in ApplyCalls : TagChanged(k) /\ ~ReuseTaken(k)

\* The create request a node of this kind starts with.
CreateOpOf(at, v) ==
    IF v.kind = "VTag"
    THEN CreateElementOp(at, Unwrap(v.reference), v.tag)
    ELSE CreateTextOp(at, Unwrap(v.reference), v.text)

(***************************************************************************)
(* C18.  When a call of apply on a VTag does not keep the previous element *)
(* (it replaces a bound previous node or creates with none), there is no   *)
(* matched previous: the renderer is handed none, each of the N childs is  *)
(* applied with no previous and so created and appended, in order, under   *)
(* the new element, nothing is removed from the new element, and no        *)
(* remove_child or replace_child is aimed at any node under the previous   *)
(* node.                                                                   *)
(***************************************************************************)
C18_NoMatchMeansAllCreated ==
    PassDone =>
        \A k \in ApplyCalls :
            (NodeAt(Applied, calls[k].at).kind = "VTag" /\ ~Matched(k)) =>
                LET c == calls[k]
                    v == NodeAt(Applied, c.at)
                    element == Unwrap(v.reference)
                    own == OpsAt(c.at)
                    under == IF IsSome(c.arg)
                             THEN Range(Tail(Refs(Unwrap(c.arg))))
                             ELSE {}
                IN  /\ own # <<>>
                    /\ own[Len(own)] = RenderOp(c.at, element, FALSE, "")
                    /\ \A i \in 1..Len(v.childs) :
                         LET at == c.at \o <<i>>
                             child == v.childs[i]
                         IN  /\ \E j \in ApplyCalls :
                                  calls[j].at = at /\ calls[j].arg = None
                             /\ SubSeq(OpsAt(at), 1, 2)
                                  = <<CreateOpOf(at, child),
                                      AppendOp(at, element, Unwrap(child.reference))>>
                    /\ dom[element].kids
                         = [i \in 1..Len(v.childs) |-> Unwrap(v.childs[i].reference)]
                    /\ \A j \in 1..Len(calls) :
                         calls[j].fn = "remove" => calls[j].parent # element
                    /\ \A j \in 1..Len(log) :
                         log[j].op \in {"remove_child", "replace_child"} =>
                             /\ log[j].target # element
                             /\ log[j].node \notin under
                             /\ log[j].old \notin under

\* An element with childs replaced a bound previous element of another tag that
\* had childs of its own.
C18_Witness ==
    /\ PassDone
    /\ \E k \in ApplyCalls :
        /\ TagChanged(k)
        /\ Len(NodeAt(Applied, calls[k].at).childs) >= 1
        /\ Len(Unwrap(calls[k].arg).childs) >= 1
        /\ FullyBound(Unwrap(calls[k].arg))

\* The own step of the call last recorded has just been taken: nothing has yet
\* been done for a child.
JustApplied ==
    /\ pc = "apply"
    /\ calls # <<>>
    /\ calls[Len(calls)].fn = "apply"
    /\ Top.phase = "pairs"
    /\ Top.i = 1
    /\ Top.path = calls[Len(calls)].at

(***************************************************************************)
(* C19.  A call of apply whose previous is absent or holds no reference    *)
(* creates exactly one live node of the node's kind (create_element for a  *)
(* VTag, create_text_node for a VText), appends it to parent with exactly  *)
(* one append_child, so that it is then the last child of parent, and      *)
(* leaves the node referring to it; at that level it issues no             *)
(* replace_child and no remove_child.  (The renderer call follows.)        *)
(***************************************************************************)
C19_CreateAndAppend ==
    (pc \in {"apply", "done"} /\ calls # <<>> /\ calls[1].fn = "apply") =>
        \A k \in ApplyCalls : ~Bound(calls[k].arg) =>
            LET c == calls[k]
                v == NodeAt(Applied, c.at)
                own == OpsAt(c.at)
                rest == SubSeq(own, 3, Len(own))
            IN  /\ IsSome(v.reference)
                /\ Len(own) >= 2
                /\ own[1] = CreateOpOf(c.at, v)
                /\ own[2] = AppendOp(c.at, c.parent, Unwrap(v.reference))
                /\ \A j \in 1..Len(rest) : rest[j].op \notin StructuralOps
                /\ dom[Unwrap(v.reference)].kind
                     = (IF v.kind = "VTag" THEN "Element" ELSE "Text")
                /\ (JustApplied /\ k = Len(calls)) =>
                     /\ dom[c.parent].kids # <<>>
                     /\ dom[c.parent].kids[Len(dom[c.parent].kids)]
                          = Unwrap(v.reference)

\* A second child has just been created with no previous and appended after
\* its elder sibling; the pass began against an unbound previous node.
C19_Witness ==
    /\ JustApplied
    /\ IsSome(calls[1].arg)
    /\ ~Bound(calls[1].arg)
    /\ calls[Len(calls)].at = <<2>>
    /\ Len(dom[calls[Len(calls)].parent].kids) = 2

\* The child list kids with the node old swapped for the node new, in place.
Swapped(kids, old, new) ==
    [i \in 1..Len(kids) |-> IF kids[i] = old THEN new ELSE kids[i]]

(***************************************************************************)
(* C20.  From its beginning to its return, a call of apply on parent P     *)
(* changes the child list of P by its own step alone and only in one of    *)
(* three ways: not at all when the previous live node is kept, by swapping *)
(* the previous live node for the new one at its place when it is          *)
(* replaced, by adding the new node at the end when there is no bound      *)
(* previous.  Every other child of P stays where it is, no later step of   *)
(* the call (its childs' calls and removals included) touches the child    *)
(* list of P, and the call never issues a remove_child on P.               *)
(***************************************************************************)
C20_ParentFrame ==
    [][\A j \in 1..Len(stack) :
         LET f == stack[j]
             before == dom[f.parent].kids
             after == dom'[f.parent].kids
         IN  /\ \A n \in 1..Len(NewOps) :
                  NewOps[n].op = "remove_child" => NewOps[n].target # f.parent
             /\ IF pc = "apply" /\ j = Len(stack) /\ f.phase = "enter"
                THEN LET new == Unwrap(NodeAt(Unwrap(self'), f.path).reference)
                     IN  IF Bound(f.last)
                         THEN LET old == Unwrap(Unwrap(f.last).reference)
                              IN  IF new = old
                                  THEN after = before
                                  ELSE /\ old \in Range(before)
                                       /\ new \notin Range(before)
                                       /\ after = Swapped(before, old, new)
                         ELSE /\ new \notin Range(before)
                              /\ after = Append(before, new)
                ELSE after = before]_vars

\* The first of two childs has just been replaced in place: the parent still
\* has two childs, the new node first.
C20_Witness ==
    /\ JustApplied
    /\ calls[Len(calls)].at = <<1>>
    /\ Bound(calls[Len(calls)].arg)
    /\ ~ReuseTaken(Len(calls))
    /\ ~TextOnText(Len(calls))
    /\ Len(dom[calls[Len(calls)].parent].kids) = 2
    /\ dom[calls[Len(calls)].parent].kids[1]
         = Unwrap(NodeAt(Applied, <<1>>).reference)

====
